---- MODULE Spec2Model ----
(***************************************************************************)
(* Verification model of the gamercade audio core:                         *)
(*   - the wavetable voice (WavetableInstance: set_frequency, tick,        *)
(*     set_active, trigger, Clone),                                        *)
(*   - the rollback test binary (rollback.rs): the producer thread, the    *)
(*     audio callback and the two ring buffers between them.               *)
(*                                                                         *)
(* Real numbers are modelled in fixed point.  A phase is an integer count  *)
(* of 1/PhaseRes table entries, an envelope amplitude an integer count of  *)
(* 1/EnvMax, a sample the integer numerator of the f32 the code computes   *)
(* (denominator WavetableBitDepthMax * PhaseRes * EnvMax).                 *)
(***************************************************************************)
EXTENDS Integers, Sequences, FiniteSets, TLC

\* ------------------------------------------------------------------------
\* Bounds of the model
\* ------------------------------------------------------------------------

\* sub-steps per table entry of the fixed-point phase
PhaseRes == 2

\* amplitude steps of the envelope (amplitude = level / EnvMax)
EnvMax == 2

\* largest frequency argument of set_frequency
MaxFreq == 3

\* longest replay (k) of the snapshot / restore experiment
MaxK == 3

\* samples of one game frame (output_sample_rate / FPS)
OutputBufferLen == 2

\* output sample slots of one invocation of the audio callback
DataLen == 3

\* frames between two rollbacks (60 in the binary, scaled down)
ROLLBACK_FRAMES == 2

\* frames the producer thread renders in a traced run
MaxFrames == 4

\* ------------------------------------------------------------------------
\* Values
\* ------------------------------------------------------------------------

Min(a, b) == IF a < b THEN a ELSE b

Max(a, b) == IF a > b THEN a ELSE b

\* enum ActiveState
ActiveState == {"Off", "On", "Trigger"}

\* WavetableBitDepth::MAX
WavetableBitDepthMax == 255

\* WavetableDefinition.data : the four entry table of the specification
Data == <<0, 127, WavetableBitDepthMax, 127>>

\* EnvelopeDefinition : rates in amplitude steps per tick, sustain level
EnvelopeDefs ==
    { [attack |-> a, decay |-> 1, sustain |-> s, release |-> 1] :
        a \in {1, EnvMax}, s \in {1, EnvMax} }

\* WavetableDefinition { data, envelope }
WavetableDefinition(envdef) == [data |-> Data, envelope |-> envdef]

\* WavetableDefinition::len
DefLen(def) == Len(def.data)

\* NO_SOUND_DEFINITION : the one entry table of the silent voice
NoSoundData == <<0>>

\* EnvelopeInstance::no_sound : an envelope that never rises
NoSoundEnvelope == [attack |-> 0, decay |-> 1, sustain |-> 0, release |-> 1]

NoSoundDefinition == [data |-> NoSoundData, envelope |-> NoSoundEnvelope]

\* the sample rate handed to no_sound: as OutputSampleRate, one unit of
\* frequency advances the phase of the one entry table by one step
NoSoundSampleRate == Len(NoSoundData) * PhaseRes

\* the output sample rate handed to the constructors: one unit of frequency
\* advances the phase by one fixed-point step per tick
OutputSampleRate == Len(Data) * PhaseRes

\* ------------------------------------------------------------------------
\* WavetableOscillator (phase accumulator)
\* ------------------------------------------------------------------------

OscNew(table_length, output_sample_rate) ==
    [ phase |-> 0, increment |-> 0,
      table_length |-> table_length,
      output_sample_rate |-> output_sample_rate ]

\* increment per tick = table_length * hz / output_sample_rate
OscSetFrequency(o, hz) ==
    [o EXCEPT !.increment =
        (o.table_length * PhaseRes * hz) \div o.output_sample_rate]

\* returns the phase before the advance; the phase wraps modulo the length
OscTick(o) ==
    [ osc   |-> [o EXCEPT !.phase =
                    (o.phase + o.increment) % (o.table_length * PhaseRes)],
      index |-> o.phase ]

\* ------------------------------------------------------------------------
\* EnvelopeInstance (amplitude state machine)
\* ------------------------------------------------------------------------

EnvNew(envdef) == [def |-> envdef, stage |-> "Off", level |-> 0]

\* attack: rise to full level, then decay
EnvAttack(e) ==
    LET l == Min(e.level + e.def.attack, EnvMax)
    IN  [e EXCEPT !.level = l,
                  !.stage = IF l = EnvMax THEN "Decay" ELSE "Attack"]

\* decay: fall to the sustain level, then hold
EnvDecay(e) ==
    LET l == Max(e.level - e.def.decay, e.def.sustain)
    IN  [e EXCEPT !.level = l,
                  !.stage = IF l = e.def.sustain THEN "Sustain" ELSE "Decay"]

\* release: fall to silence, then off
EnvRelease(e) ==
    LET l == Max(e.level - e.def.release, 0)
    IN  [e EXCEPT !.level = l,
                  !.stage = IF l = 0 THEN "Off" ELSE "Release"]

\* one step of the envelope under the voice's activity
EnvStep(e, active) ==
    IF active = "Trigger"
    THEN EnvAttack([e EXCEPT !.stage = "Attack", !.level = 0])
    ELSE IF active = "On"
    THEN IF e.stage = "Decay" THEN EnvDecay(e)
         ELSE IF e.stage = "Sustain" THEN e
         ELSE EnvAttack(e)
    ELSE IF e.stage = "Off" THEN e ELSE EnvRelease(e)

\* EnvelopeInstance::tick(active) -> amplitude
EnvTick(e, active) ==
    LET n == EnvStep(e, active) IN [env |-> n, amp |-> n.level]

\* ------------------------------------------------------------------------
\* WavetableInstance (the voice)
\* ------------------------------------------------------------------------

\* WavetableInstance::no_sound
VoiceNoSound(output_sample_rate) ==
    [ definition |-> NoSoundDefinition,
      envelope   |-> EnvNew(NoSoundDefinition.envelope),
      oscillator |-> OscNew(1, output_sample_rate),
      active     |-> "Off" ]

\* a constructor whose oscillator is one entry longer than the table
VoiceNew_LongOscillator(definition, output_sample_rate) ==
    [ definition |-> definition,
      envelope   |-> EnvNew(definition.envelope),
      oscillator |-> OscNew(DefLen(definition) + 1, output_sample_rate),
      active     |-> "Off" ]

\* WavetableInstance::new
VoiceNew(definition, output_sample_rate) ==
    [ definition |-> definition,
      envelope   |-> EnvNew(definition.envelope),
      oscillator |-> OscNew(DefLen(definition), output_sample_rate),
      active     |-> "Off" ]

\* WavetableInstance::set_frequency
VoiceSetFrequency(v, hz) ==
    [v EXCEPT !.oscillator = OscSetFrequency(v.oscillator, hz)]

\* WavetableInstance::set_active
VoiceSetActive(v, on) ==
    [v EXCEPT !.active = IF on THEN "On" ELSE "Off"]

\* WavetableInstance::trigger
VoiceTrigger(v) == [v EXCEPT !.active = "Trigger"]

\* a tick that turns a trigger into a held note
ClearTrigger_Hold(active) == IF active = "Trigger" THEN "On" ELSE active

\* a tick that never clears the trigger flag
ClearTrigger_Keep(active) == active

\* a tick that ends every note, held or triggered
ClearTrigger_ReleaseHeld(active) == "Off"

\* tick, lines 64-66: if ActiveState::Trigger == self.active { Off }
ClearTrigger(active) == IF active = "Trigger" THEN "Off" ELSE active

\* tick, line 51: let index = self.oscillator.tick() as usize
TableIndex(phase) == phase \div PhaseRes

\* tick, line 56: let next = (index + 1) % self.definition.len()
TableNext(definition, index) == (index + 1) % DefLen(definition)

\* an interpolation whose first weight is not reduced by the fraction, so
\* that the two weights sum to more than one
Interpolate_FullIndexWeight(definition, phase) ==
    LET next_weight  == phase % PhaseRes
        index_weight == PhaseRes
        index        == TableIndex(phase)
        next         == TableNext(definition, index)
    IN  (definition.data[index + 1] * index_weight)
        + (definition.data[next + 1] * next_weight)

\* an interpolation with the two weights exchanged
Interpolate_SwappedWeights(definition, phase) ==
    LET next_weight  == phase % PhaseRes
        index_weight == PhaseRes - next_weight
        index        == TableIndex(phase)
        next         == TableNext(definition, index)
    IN  (definition.data[index + 1] * next_weight)
        + (definition.data[next + 1] * index_weight)

\* tick, lines 52-61: linear interpolation between data[index], data[next]
Interpolate(definition, phase) ==
    LET next_weight  == phase % PhaseRes
        index_weight == PhaseRes - next_weight
        index        == TableIndex(phase)
        next         == TableNext(definition, index)
    IN  (definition.data[index + 1] * index_weight)
        + (definition.data[next + 1] * next_weight)

\* WavetableInstance::tick : the new voice, the sample, and the activity
\* handed to the envelope
VoiceTick(v) ==
    LET o        == OscTick(v.oscillator)
        output   == Interpolate(v.definition, o.index)
        envelope == EnvTick(v.envelope, v.active)
    IN  [ voice  |-> [v EXCEPT !.oscillator = o.osc,
                               !.envelope   = envelope.env,
                               !.active     = ClearTrigger(v.active)],
          out    |-> output * envelope.amp,
          env_in |-> v.active ]

\* a clone that forgets the activity of the voice
VoiceClone_Inactive(v) ==
    [ definition |-> v.definition,
      envelope   |-> v.envelope,
      oscillator |-> v.oscillator,
      active     |-> "Off" ]

\* a clone that starts a fresh envelope instead of copying it
VoiceClone_FreshEnvelope(v) ==
    [ definition |-> v.definition,
      envelope   |-> EnvNew(v.definition.envelope),
      oscillator |-> v.oscillator,
      active     |-> v.active ]

\* #[derive(Clone)] : field by field copy, the definition is shared
VoiceClone(v) ==
    [ definition |-> v.definition,
      envelope   |-> v.envelope,
      oscillator |-> v.oscillator,
      active     |-> v.active ]

\* ------------------------------------------------------------------------
\* State of the voice experiments
\* ------------------------------------------------------------------------

VARIABLES
    voice,      \* the live WavetableInstance
    out,        \* the sample of its last tick
    env_in,     \* the ActiveState its last tick handed to the envelope
    ticks,      \* parity of the number of ticks of the live voice
    fresh,      \* no tick since the last trigger / set_active of this state
    twin,       \* <<>> or <<c>> : a clone driven by the same calls
    twin_out,   \* the sample of the clone's last tick
    snap,       \* <<>> or <<s>> : a snapshot (clone) kept for a restore
    snap_fresh, \* the value of fresh when the snapshot was taken
    rpc,        \* "idle", "first" (ticking after the snapshot), "second"
    first,      \* samples ticked between snapshot and restore
    second      \* samples ticked after the restore

voiceVars ==
    <<voice, out, env_in, ticks, fresh, twin, twin_out,
      snap, snap_fresh, rpc, first, second>>

\* rollback.rs : state of main, the producer thread and the audio callback
VARIABLES
    osci,          \* the voice the producer thread ticks
    prev,          \* its last snapshot
    frame_count,   \* frames rendered since the last rollback
    ppc,           \* producer thread: "loop", "push", "render", "rollback",
                   \* "sleep", "panicked"
    new_producer,  \* the ring the producer thread renders into
    chunk,         \* the samples written into the uninitialised chunk
    bufs,          \* heap of inner rings, by id
    outer,         \* the outer queue: ids of the queued frame rings
    consumer,      \* the inner ring the callback reads
    frames_read,   \* the callback's count of sample slots of this frame
    cpc,           \* callback: "idle", "pop", "check"
    slot,          \* the output slot (chunk of 2) the callback is at
    data,          \* the callback's output buffer: <<left, right>> per slot
    popped,        \* outcome of the callback's last consumer.pop()
    tracing,       \* this run logs what is rendered and what is played
    rendered_log,  \* when tracing: the samples osci.tick() returned, in order
    played_log,    \* when tracing: <<frame, tick, sample>> of every sample
                   \* the callback took, in order
    slots_mod,     \* sample slots the callback has processed, modulo
                   \* OutputBufferLen
    frames_mod,    \* frames committed, modulo ROLLBACK_FRAMES + 1
    frame_end,     \* osci as it was when the last frame was committed
    frame_end_before,  \* frame_end of the frame before that one
    last_frame,    \* the samples of the last committed frame
    restored       \* the last rollback step restored prev ("rollback")

pipeVars ==
    <<osci, prev, frame_count, ppc, new_producer, chunk, bufs, outer,
      consumer, frames_read, cpc, slot, data, popped, tracing,
      rendered_log, played_log, slots_mod, frames_mod, frame_end,
      frame_end_before, last_frame, restored>>

\* fm/algorithm.rs : an Algorithm value and the evaluation of one sample
VARIABLES
    algorithm,   \* the u8 of the Algorithm value
    apc,         \* "constructed", "defined" (get_definition returned),
                 \* "panicked" (get_definition panicked)
    alg_def,     \* <<>> or <<d>> : the definition get_definition returned
    computed,    \* the operators whose output of this sample is computed
    read_early   \* an output was read before it was computed

fmVars == <<algorithm, apc, alg_def, computed, read_early>>

\* audio_editor.rs : the AudioSyncHelper and the inbox of the sound engine
VARIABLES
    sync_rom,        \* AudioSyncHelper::sync_rom
    channel_ticker,  \* the channel the cycling iterator yields next
    command_queue,   \* AudioSyncHelper::command_queue
    inbox,           \* messages sent to the engine and not yet drained
    calls,           \* the note calls whose message is not yet drained
    assigned         \* the channels channel_ticker.next() yielded last,
                     \* oldest first

editorVars ==
    <<sync_rom, channel_ticker, command_queue, inbox, calls, assigned>>

\* wasm_console.rs : the console under the requests of the rollback session
VARIABLES
    active_state,   \* WasmConsole::active_state
    input_entries,  \* InputContext::input_entries, shared with the window
    cells,          \* the save cells of the session: <<>> or <<state>>
    wasm_memory,    \* the memory of the wasm instance the handles point to
    saved,          \* per cell, <<>> or the values at the moment of its save
    last_request    \* the request handled last ("write": the window wrote)

consoleVars ==
    <<active_state, input_entries, cells, wasm_memory, saved, last_request>>

vars == <<voiceVars, pipeVars, fmVars, editorVars, consoleVars>>

\* what the actions of one part leave alone
notVoiceVars == <<pipeVars, fmVars, editorVars, consoleVars>>

notPipeVars == <<voiceVars, fmVars, editorVars, consoleVars>>

notFmVars == <<voiceVars, pipeVars, editorVars, consoleVars>>

notEditorVars == <<voiceVars, pipeVars, fmVars, consoleVars>>

notConsoleVars == <<voiceVars, pipeVars, fmVars, editorVars>>

InitVoiceVars(voices) ==
    /\ voice \in voices
    /\ out = 0
    /\ env_in = "Off"
    /\ ticks = 0
    /\ fresh = TRUE
    /\ twin = <<>>
    /\ twin_out = 0
    /\ snap = <<>>
    /\ snap_fresh = TRUE
    /\ rpc = "idle"
    /\ first = <<>>
    /\ second = <<>>

\* commands are given outside a replay, or when a replay of full length is
\* complete and the snapshot is still held
AtRest == rpc = "idle" \/ (rpc = "second" /\ Len(second) = MaxK)

\* voice.set_frequency(hz), on the voice and its clone
SetFrequency ==
    /\ AtRest
    /\ \E hz \in 0..MaxFreq :
          /\ voice' = VoiceSetFrequency(voice, hz)
          /\ twin' = IF twin = <<>> THEN <<>>
                     ELSE <<VoiceSetFrequency(twin[1], hz)>>
    /\ UNCHANGED <<out, env_in, ticks, fresh, twin_out,
                   snap, snap_fresh, rpc, first, second>>
    /\ UNCHANGED notVoiceVars

\* voice.set_active(on), on the voice and its clone
SetActive ==
    /\ AtRest
    /\ \E on \in BOOLEAN :
          /\ voice' = VoiceSetActive(voice, on)
          /\ twin' = IF twin = <<>> THEN <<>>
                     ELSE <<VoiceSetActive(twin[1], on)>>
    /\ fresh' = TRUE
    /\ UNCHANGED <<out, env_in, ticks, twin_out,
                   snap, snap_fresh, rpc, first, second>>
    /\ UNCHANGED notVoiceVars

\* voice.trigger(), on the voice and its clone
Trigger ==
    /\ AtRest
    /\ voice' = VoiceTrigger(voice)
    /\ twin' = IF twin = <<>> THEN <<>> ELSE <<VoiceTrigger(twin[1])>>
    /\ fresh' = TRUE
    /\ UNCHANGED <<out, env_in, ticks, twin_out,
                   snap, snap_fresh, rpc, first, second>>
    /\ UNCHANGED notVoiceVars

\* a tick that also advances the snapshot, as if the snapshot shared the
\* state of the live voice
Tick_AliasedSnapshot ==
    /\ rpc = "first" => Len(first) < MaxK
    /\ rpc = "second" => Len(second) < Len(first)
    /\ LET t == VoiceTick(voice)
       IN  /\ voice' = t.voice
           /\ out' = t.out
           /\ env_in' = t.env_in
           /\ twin' = IF twin = <<>> THEN <<>>
                      ELSE <<VoiceTick(twin[1]).voice>>
           /\ twin_out' = IF twin = <<>> THEN 0 ELSE VoiceTick(twin[1]).out
           /\ first' = IF rpc = "first" THEN Append(first, t.out) ELSE first
           /\ second' = IF rpc = "second" THEN Append(second, t.out)
                                           ELSE second
           /\ snap' = IF snap = <<>> THEN <<>> ELSE <<t.voice>>
    /\ ticks' = 1 - ticks
    /\ fresh' = FALSE
    /\ UNCHANGED <<snap_fresh, rpc>>
    /\ UNCHANGED notVoiceVars

\* voice.tick(), on the voice and its clone; recorded during a replay
Tick ==
    /\ rpc = "first" => Len(first) < MaxK
    /\ rpc = "second" => Len(second) < Len(first)
    /\ LET t == VoiceTick(voice)
       IN  /\ voice' = t.voice
           /\ out' = t.out
           /\ env_in' = t.env_in
           /\ twin' = IF twin = <<>> THEN <<>>
                      ELSE <<VoiceTick(twin[1]).voice>>
           /\ twin_out' = IF twin = <<>> THEN 0 ELSE VoiceTick(twin[1]).out
           /\ first' = IF rpc = "first" THEN Append(first, t.out) ELSE first
           /\ second' = IF rpc = "second" THEN Append(second, t.out)
                                           ELSE second
    /\ ticks' = 1 - ticks
    /\ fresh' = FALSE
    /\ UNCHANGED <<snap, snap_fresh, rpc>>
    /\ UNCHANGED notVoiceVars

\* let twin = voice.clone()
CloneVoice ==
    /\ rpc = "idle"
    /\ twin = <<>>
    /\ twin' = <<VoiceClone(voice)>>
    /\ twin_out' = out
    /\ UNCHANGED <<voice, out, env_in, ticks, fresh,
                   snap, snap_fresh, rpc, first, second>>
    /\ UNCHANGED notVoiceVars

\* the clone goes out of scope
DropClone ==
    /\ rpc = "idle"
    /\ twin # <<>>
    /\ twin' = <<>>
    /\ twin_out' = 0
    /\ UNCHANGED <<voice, out, env_in, ticks, fresh,
                   snap, snap_fresh, rpc, first, second>>
    /\ UNCHANGED notVoiceVars

\* prev = osci.clone()
Snapshot ==
    /\ rpc = "idle"
    /\ snap' = <<VoiceClone(voice)>>
    /\ snap_fresh' = fresh
    /\ rpc' = "first"
    /\ first' = <<>>
    /\ second' = <<>>
    /\ UNCHANGED <<voice, out, env_in, ticks, fresh, twin, twin_out>>
    /\ UNCHANGED notVoiceVars

\* osci = prev.clone() : the live voice is replaced by the snapshot
Restore ==
    /\ rpc = "first"
    /\ Len(first) >= 1
    /\ voice' = VoiceClone(snap[1])
    /\ fresh' = snap_fresh
    /\ twin' = <<>>
    /\ twin_out' = 0
    /\ rpc' = "second"
    /\ UNCHANGED <<out, env_in, ticks, snap, snap_fresh, first, second>>
    /\ UNCHANGED notVoiceVars

\* the replay is over
FinishReplay ==
    /\ rpc = "second"
    /\ Len(second) = Len(first)
    /\ rpc' = "idle"
    /\ snap' = <<>>
    /\ snap_fresh' = TRUE
    /\ first' = <<>>
    /\ second' = <<>>
    /\ UNCHANGED <<voice, out, env_in, ticks, fresh, twin, twin_out>>
    /\ UNCHANGED notVoiceVars

\* ------------------------------------------------------------------------
\* rollback.rs : ring buffers
\* ------------------------------------------------------------------------

\* RingBuffer::new(2), the outer queue of frame buffers
OuterCapacity == 2

\* the heap of inner ring buffers: what can be alive at once, and one more
BufIds == 0..(OuterCapacity + 1)

\* ring_buf(output_buffer_len) : an empty ring; `slots` are the committed
\* samples, `head` counts the samples popped, `frame` tells a buffer of the
\* producer thread from the preloaded one; `seq` is, in a traced run, the
\* number of the frame the ring was allocated for
NewRing(frame) == [slots |-> <<>>, head |-> 0, frame |-> frame, seq |-> 0]

\* the silence of lines 66-70: output_buffer_len zeros, committed
SilentRing ==
    [ slots |-> [i \in 1..OutputBufferLen |-> 0], head |-> 0,
      frame |-> FALSE, seq |-> 0 ]

\* Producer::is_full, off by one
IsFull_OffByOne(q) == Len(q) > OuterCapacity

\* Producer::is_full of the outer queue
IsFull(q) == Len(q) >= OuterCapacity

\* a pop that hands out the oldest sample and leaves it in the ring
RingPop_Peek(r) ==
    IF r.head < Len(r.slots)
    THEN [ok |-> TRUE, sample |-> r.slots[r.head + 1], ring |-> r]
    ELSE [ok |-> FALSE, sample |-> 0, ring |-> r]

\* Consumer::pop of an inner ring: the sample, or Err when none is committed
RingPop(r) ==
    IF r.head < Len(r.slots)
    THEN [ok |-> TRUE, sample |-> r.slots[r.head + 1],
          ring |-> [r EXCEPT !.head = r.head + 1]]
    ELSE [ok |-> FALSE, sample |-> 0, ring |-> r]

\* ------------------------------------------------------------------------
\* rollback.rs : main
\* ------------------------------------------------------------------------

\* rings some handle still refers to
Live(q, c, holds, np) ==
    {q[i] : i \in 1..Len(q)} \cup {c} \cup (IF holds THEN {np} ELSE {})

\* the heap after handles were dropped: a ring nobody refers to is freed
Collect(heap, live) ==
    [b \in BufIds |-> IF b \in live THEN heap[b] ELSE NewRing(FALSE)]

\* fn osci(output_sample_rate), then set_frequency and trigger (lines 72-74)
MainVoice(envdef, hz) ==
    VoiceTrigger(
        VoiceSetFrequency(
            VoiceNew(WavetableDefinition(envdef), OutputSampleRate), hz))

InitPipeVars(envdefs, freqs, traced) ==
    /\ \E envdef \in envdefs, hz \in freqs :
          /\ osci = MainVoice(envdef, hz)
          /\ prev = VoiceClone(MainVoice(envdef, hz))
          /\ frame_end = MainVoice(envdef, hz)
          /\ frame_end_before = MainVoice(envdef, hz)
    /\ tracing = traced
    /\ rendered_log = <<>>
    /\ played_log = <<>>
    /\ slots_mod = 0
    /\ frames_mod = 0
    /\ last_frame = <<>>
    /\ restored = FALSE
    /\ frame_count = 0
    /\ ppc = "loop"
    /\ new_producer = 0
    /\ chunk = <<>>
    /\ bufs = [b \in BufIds |-> IF b = 0 THEN SilentRing ELSE NewRing(FALSE)]
    /\ outer = <<>>
    /\ consumer = 0
    /\ frames_read = 0
    /\ cpc = "idle"
    /\ slot = 1
    /\ data = [i \in 1..DataLen |-> <<0, 0>>]
    /\ popped = "none"

\* ------------------------------------------------------------------------
\* The producer thread (lines 117-147)
\* ------------------------------------------------------------------------

\* line 120: if !buffer_producer.is_full() ... else loop_sleep
ProducerCheck ==
    /\ ppc = "loop"
    /\ tracing => Len(rendered_log) < MaxFrames * OutputBufferLen
    /\ ppc' = IF ~IsFull(outer) THEN "push" ELSE "sleep"
    /\ UNCHANGED <<osci, prev, frame_count, new_producer, chunk, bufs,
                   outer, consumer, frames_read, cpc, slot, data, popped>>
    /\ UNCHANGED <<tracing, rendered_log, played_log, slots_mod, frames_mod,
                   frame_end, frame_end_before, last_frame, restored>>
    /\ UNCHANGED notPipeVars

\* line 144: loop_helper.loop_sleep()
ProducerSleep ==
    /\ ppc = "sleep"
    /\ ppc' = "loop"
    /\ UNCHANGED <<osci, prev, frame_count, new_producer, chunk, bufs,
                   outer, consumer, frames_read, cpc, slot, data, popped>>
    /\ UNCHANGED <<tracing, rendered_log, played_log, slots_mod, frames_mod,
                   frame_end, frame_end_before, last_frame, restored>>
    /\ UNCHANGED notPipeVars

\* lines 122-126: a new ring is allocated and its consumer pushed to the
\* outer queue, before anything is written; a failed push panics
ProducerPush ==
    /\ ppc = "push"
    /\ LET free == BufIds \ Live(outer, consumer, FALSE, new_producer)
           b    == CHOOSE x \in free : \A y \in free : x <= y
       IN  IF Len(outer) < OuterCapacity
           THEN /\ outer' = Append(outer, b)
                /\ bufs' = [bufs EXCEPT ![b] =
                              [NewRing(TRUE) EXCEPT !.seq =
                                  IF tracing
                                  THEN Len(rendered_log) \div OutputBufferLen
                                       + 1
                                  ELSE 0]]
                /\ new_producer' = b
                /\ chunk' = <<>>
                /\ ppc' = "render"
           ELSE /\ ppc' = "panicked"
                /\ UNCHANGED <<outer, bufs, new_producer, chunk>>
    /\ UNCHANGED <<osci, prev, frame_count, consumer, frames_read, cpc,
                   slot, data, popped>>
    /\ UNCHANGED <<tracing, rendered_log, played_log, slots_mod, frames_mod,
                   frame_end, frame_end_before, last_frame, restored>>
    /\ UNCHANGED notPipeVars

\* the tick loop with the snapshot taken inside it
ProducerTick_Snapshotting ==
    /\ ppc = "render"
    /\ Len(chunk) < OutputBufferLen
    /\ LET t == VoiceTick(osci)
       IN  /\ osci' = t.voice
           /\ prev' = VoiceClone(t.voice)
           /\ chunk' = Append(chunk, t.out)
    /\ UNCHANGED <<frame_count, ppc, new_producer, bufs, outer,
                   consumer, frames_read, cpc, slot, data, popped>>
    /\ rendered_log' = IF tracing THEN Append(rendered_log, VoiceTick(osci).out)
                                  ELSE rendered_log
    /\ UNCHANGED <<tracing, played_log, slots_mod, frames_mod, frame_end,
                   frame_end_before, last_frame, restored>>
    /\ UNCHANGED notPipeVars

\* lines 128-130: item.write(osci.tick()), once per sample of the frame
ProducerTick ==
    /\ ppc = "render"
    /\ Len(chunk) < OutputBufferLen
    /\ LET t == VoiceTick(osci)
       IN  /\ osci' = t.voice
           /\ chunk' = Append(chunk, t.out)
    /\ UNCHANGED <<prev, frame_count, ppc, new_producer, bufs, outer,
                   consumer, frames_read, cpc, slot, data, popped>>
    /\ rendered_log' = IF tracing THEN Append(rendered_log, VoiceTick(osci).out)
                                  ELSE rendered_log
    /\ UNCHANGED <<tracing, played_log, slots_mod, frames_mod, frame_end,
                   frame_end_before, last_frame, restored>>
    /\ UNCHANGED notPipeVars

\* lines 131-133: chunk.commit_all() makes the frame's samples visible to
\* the ring's consumer; frame_count += 1
ProducerCommit ==
    /\ ppc = "render"
    /\ Len(chunk) = OutputBufferLen
    /\ bufs' = [bufs EXCEPT ![new_producer].slots = chunk]
    /\ chunk' = <<>>
    /\ frame_count' = frame_count + 1
    /\ ppc' = "rollback"
    /\ UNCHANGED <<osci, prev, new_producer, outer, consumer, frames_read,
                   cpc, slot, data, popped>>
    /\ frames_mod' = (frames_mod + 1) % (ROLLBACK_FRAMES + 1)
    /\ frame_end' = osci
    /\ frame_end_before' = frame_end
    /\ last_frame' = chunk
    /\ UNCHANGED <<tracing, rendered_log, played_log, slots_mod, restored>>
    /\ UNCHANGED notPipeVars

\* a rollback block that compares with >= : one frame early
ProducerRollback_Early ==
    /\ ppc = "rollback"
    /\ IF frame_count >= ROLLBACK_FRAMES
       THEN /\ osci' = VoiceClone(prev)
            /\ frame_count' = 0
            /\ prev' = prev
       ELSE /\ prev' = VoiceClone(osci)
            /\ UNCHANGED <<osci, frame_count>>
    /\ bufs' = Collect(bufs, Live(outer, consumer, FALSE, new_producer))
    /\ new_producer' = 0
    /\ ppc' = "loop"
    /\ UNCHANGED <<chunk, outer, consumer, frames_read, cpc, slot, data,
                   popped>>
    /\ restored' = (frame_count >= ROLLBACK_FRAMES)
    /\ UNCHANGED <<tracing, rendered_log, played_log, slots_mod, frames_mod,
                   frame_end, frame_end_before, last_frame>>
    /\ UNCHANGED notPipeVars

\* lines 135-141: restore the snapshot every ROLLBACK_FRAMES + 1 frames,
\* take a snapshot otherwise; new_producer goes out of scope
ProducerRollback ==
    /\ ppc = "rollback"
    /\ IF frame_count > ROLLBACK_FRAMES
       THEN /\ osci' = VoiceClone(prev)
            /\ frame_count' = 0
            /\ prev' = prev
       ELSE /\ prev' = VoiceClone(osci)
            /\ UNCHANGED <<osci, frame_count>>
    /\ bufs' = Collect(bufs, Live(outer, consumer, FALSE, new_producer))
    /\ new_producer' = 0
    /\ ppc' = "loop"
    /\ UNCHANGED <<chunk, outer, consumer, frames_read, cpc, slot, data,
                   popped>>
    /\ restored' = (frame_count > ROLLBACK_FRAMES)
    /\ UNCHANGED <<tracing, rendered_log, played_log, slots_mod, frames_mod,
                   frame_end, frame_end_before, last_frame>>
    /\ UNCHANGED notPipeVars

\* ------------------------------------------------------------------------
\* The audio callback (lines 81-104)
\* ------------------------------------------------------------------------

\* the device invokes the callback with an output buffer that it has
\* either zeroed or left as the previous invocation wrote it
CallbackEnter ==
    /\ cpc = "idle"
    /\ ppc # "panicked"
    /\ \E zeroed \in BOOLEAN :
          data' = IF zeroed THEN [i \in 1..DataLen |-> <<0, 0>>] ELSE data
    /\ slot' = 1
    /\ cpc' = "pop"
    /\ UNCHANGED <<osci, prev, frame_count, ppc, new_producer, chunk, bufs,
                   outer, consumer, frames_read, popped>>
    /\ UNCHANGED <<tracing, rendered_log, played_log, slots_mod, frames_mod,
                   frame_end, frame_end_before, last_frame, restored>>
    /\ UNCHANGED notPipeVars

\* a callback that waits until the producer has committed a sample
CallbackPop_Blocking ==
    /\ cpc = "pop"
    /\ ppc # "panicked"
    /\ RingPop(bufs[consumer]).ok
    /\ frames_read' = frames_read + 1
    /\ LET r == RingPop(bufs[consumer])
       IN  /\ bufs' = [bufs EXCEPT ![consumer] = r.ring]
           /\ data' = [data EXCEPT ![slot] = <<r.sample, r.sample>>]
           /\ popped' = IF bufs[consumer].frame THEN "frame" ELSE "preload"
    /\ cpc' = "check"
    /\ UNCHANGED <<osci, prev, frame_count, ppc, new_producer, chunk,
                   outer, consumer, slot>>
    /\ slots_mod' = (slots_mod + 1) % OutputBufferLen
    /\ played_log' =
          IF tracing /\ RingPop(bufs[consumer]).ok
          THEN Append(played_log,
                      <<bufs[consumer].seq, bufs[consumer].head + 1,
                        RingPop(bufs[consumer]).sample>>)
          ELSE played_log
    /\ UNCHANGED <<tracing, rendered_log, frames_mod, frame_end,
                   frame_end_before, last_frame, restored>>
    /\ UNCHANGED notPipeVars

\* lines 84-93: frames_read += 1; consumer.pop(); a sample is written to
\* both channels, Err only prints
CallbackPop ==
    /\ cpc = "pop"
    /\ ppc # "panicked"
    /\ frames_read' = frames_read + 1
    /\ LET r == RingPop(bufs[consumer])
       IN  /\ bufs' = [bufs EXCEPT ![consumer] = r.ring]
           /\ data' = IF r.ok
                      THEN [data EXCEPT ![slot] = <<r.sample, r.sample>>]
                      ELSE data
           /\ popped' = IF ~r.ok THEN "starved"
                        ELSE IF bufs[consumer].frame THEN "frame"
                        ELSE "preload"
    /\ cpc' = "check"
    /\ UNCHANGED <<osci, prev, frame_count, ppc, new_producer, chunk,
                   outer, consumer, slot>>
    /\ slots_mod' = (slots_mod + 1) % OutputBufferLen
    /\ played_log' =
          IF tracing /\ RingPop(bufs[consumer]).ok
          THEN Append(played_log,
                      <<bufs[consumer].seq, bufs[consumer].head + 1,
                        RingPop(bufs[consumer]).sample>>)
          ELSE played_log
    /\ UNCHANGED <<tracing, rendered_log, frames_mod, frame_end,
                   frame_end_before, last_frame, restored>>
    /\ UNCHANGED notPipeVars

\* a frame boundary that resets frames_read only when a frame was queued
CallbackCheck_ResetOnSuccess ==
    /\ cpc = "check"
    /\ ppc # "panicked"
    /\ IF frames_read = OutputBufferLen
       THEN /\ IF outer # <<>>
               THEN /\ frames_read' = 0
                    /\ consumer' = Head(outer)
                    /\ outer' = Tail(outer)
                    /\ bufs' = Collect(bufs,
                                 Live(Tail(outer), Head(outer),
                                      ppc \in {"render", "rollback"},
                                      new_producer))
               ELSE UNCHANGED <<frames_read, consumer, outer, bufs>>
       ELSE UNCHANGED <<frames_read, consumer, outer, bufs>>
    /\ IF slot < DataLen
       THEN /\ slot' = slot + 1
            /\ cpc' = "pop"
       ELSE /\ slot' = 1
            /\ cpc' = "idle"
    /\ UNCHANGED <<osci, prev, frame_count, ppc, new_producer, chunk,
                   data, popped>>
    /\ UNCHANGED <<tracing, rendered_log, played_log, slots_mod, frames_mod,
                   frame_end, frame_end_before, last_frame, restored>>
    /\ UNCHANGED notPipeVars

\* lines 96-102: after output_buffer_len slots, buffer_consumer.pop()
\* replaces the inner ring if a frame is queued; frames_read = 0 either
\* way; then the next slot, or the callback returns
CallbackCheck ==
    /\ cpc = "check"
    /\ ppc # "panicked"
    /\ IF frames_read = OutputBufferLen
       THEN /\ frames_read' = 0
            /\ IF outer # <<>>
               THEN /\ consumer' = Head(outer)
                    /\ outer' = Tail(outer)
                    /\ bufs' = Collect(bufs,
                                 Live(Tail(outer), Head(outer),
                                      ppc \in {"render", "rollback"},
                                      new_producer))
               ELSE UNCHANGED <<consumer, outer, bufs>>
       ELSE UNCHANGED <<frames_read, consumer, outer, bufs>>
    /\ IF slot < DataLen
       THEN /\ slot' = slot + 1
            /\ cpc' = "pop"
       ELSE /\ slot' = 1
            /\ cpc' = "idle"
    /\ UNCHANGED <<osci, prev, frame_count, ppc, new_producer, chunk,
                   data, popped>>
    /\ UNCHANGED <<tracing, rendered_log, played_log, slots_mod, frames_mod,
                   frame_end, frame_end_before, last_frame, restored>>
    /\ UNCHANGED notPipeVars

\* ------------------------------------------------------------------------
\* fm/algorithm.rs : the routing table of the four FM operators
\* ------------------------------------------------------------------------

OPERATOR_COUNT == 4

Operators == 0..(OPERATOR_COUNT - 1)

\* the values of the u8 field of Algorithm
U8 == 0..255

\* enum ModulatedBy : the operators whose outputs feed one operator
None == <<>>

Single(a) == <<a>>

Double(a, b) == <<a, b>>

Triple(a, b, c) == <<a, b, c>>

\* carriers[i] is operator i ; modulators[k] is the entry of operator k + 1
\* (operator 0, "A", is modulated by nothing in every diagram of the table)
AlgorithmDefinition(carriers, modulators) ==
    [carriers |-> carriers, modulators |-> modulators]

\* Algorithm::min
AlgorithmMin == 0

\* Algorithm::max
AlgorithmMax == 11

\* the table with its arms of algorithm 0 and 11 exchanged
get_definition_Reversed(n) ==
    CASE n = AlgorithmMin ->
           <<AlgorithmDefinition(<<TRUE, TRUE, TRUE, TRUE>>,
                                 <<None, None, None>>)>>
      [] n = AlgorithmMax ->
           <<AlgorithmDefinition(<<FALSE, FALSE, FALSE, TRUE>>,
                                 <<Single(0), Single(1), Single(2)>>)>>
      [] n \in (AlgorithmMin + 1)..(AlgorithmMax - 1) ->
           <<AlgorithmDefinition(<<FALSE, FALSE, FALSE, TRUE>>,
                                 <<None, None, Triple(0, 1, 2)>>)>>
      [] OTHER -> <<>>

\* the table with a feedback entry: in algorithm 3 operator 2 feeds itself
get_definition_Feedback(n) ==
    CASE n = 3 ->
           <<AlgorithmDefinition(<<FALSE, FALSE, FALSE, TRUE>>,
                                 <<Single(0), Single(2), Double(1, 2)>>)>>
      [] n \in AlgorithmMin..AlgorithmMax /\ n # 3 ->
           <<AlgorithmDefinition(<<TRUE, TRUE, TRUE, TRUE>>,
                                 <<None, None, None>>)>>
      [] OTHER -> <<>>

\* the table with operator 2 of algorithm 5 left out of the carriers, though
\* no operator is modulated by it
get_definition_LostOperator(n) ==
    CASE n = 5 ->
           <<AlgorithmDefinition(<<FALSE, FALSE, FALSE, TRUE>>,
                                 <<Single(0), Single(1), None>>)>>
      [] n \in AlgorithmMin..AlgorithmMax /\ n # 5 ->
           <<AlgorithmDefinition(<<TRUE, TRUE, TRUE, TRUE>>,
                                 <<None, None, None>>)>>
      [] OTHER -> <<>>

\* the table with a last arm that answers instead of panicking
get_definition_Lenient(n) ==
    <<AlgorithmDefinition(<<TRUE, TRUE, TRUE, TRUE>>, <<None, None, None>>)>>

\* Algorithm::get_definition : <<definition>>, or <<>> when it panics
get_definition(n) ==
    CASE n = 0 ->    \* A > B > C > D
           <<AlgorithmDefinition(<<FALSE, FALSE, FALSE, TRUE>>,
                                 <<Single(0), Single(1), Single(2)>>)>>
      [] n = 1 ->    \* [A + B] > C > D
           <<AlgorithmDefinition(<<FALSE, FALSE, FALSE, TRUE>>,
                                 <<None, Double(0, 1), Single(2)>>)>>
      [] n = 2 ->    \* [[A > B] + C] > D
           <<AlgorithmDefinition(<<FALSE, FALSE, FALSE, TRUE>>,
                                 <<Single(0), None, Double(1, 2)>>)>>
      [] n = 3 ->    \* [[A > B] + [A > C]] > D
           <<AlgorithmDefinition(<<FALSE, FALSE, FALSE, TRUE>>,
                                 <<Single(0), Single(0), Double(1, 2)>>)>>
      [] n = 4 ->    \* [A + B + C] > D
           <<AlgorithmDefinition(<<FALSE, FALSE, FALSE, TRUE>>,
                                 <<None, None, Triple(0, 1, 2)>>)>>
      [] n = 5 ->    \* [A > B > C] + D
           <<AlgorithmDefinition(<<FALSE, FALSE, TRUE, TRUE>>,
                                 <<Single(0), Single(1), None>>)>>
      [] n = 6 ->    \* [A > B > C] + [A > B > D]
           <<AlgorithmDefinition(<<FALSE, FALSE, TRUE, TRUE>>,
                                 <<Single(0), Single(1), Single(1)>>)>>
      [] n = 7 ->    \* [A > B] + [C > D]
           <<AlgorithmDefinition(<<FALSE, TRUE, FALSE, TRUE>>,
                                 <<Single(0), None, Single(2)>>)>>
      [] n = 8 ->    \* [A > B] + [A > C] + [A > D]
           <<AlgorithmDefinition(<<FALSE, TRUE, TRUE, TRUE>>,
                                 <<Single(0), Single(0), Single(0)>>)>>
      [] n = 9 ->    \* [A > B] + [A > C] + D
           <<AlgorithmDefinition(<<FALSE, TRUE, TRUE, TRUE>>,
                                 <<Single(0), Single(0), None>>)>>
      [] n = 10 ->   \* [A > B] + C + D
           <<AlgorithmDefinition(<<FALSE, TRUE, TRUE, TRUE>>,
                                 <<Single(0), None, None>>)>>
      [] n = 11 ->   \* A + B + C + D
           <<AlgorithmDefinition(<<TRUE, TRUE, TRUE, TRUE>>,
                                 <<None, None, None>>)>>
      [] OTHER -> <<>>   \* panic!("invalid algorithm value")

\* the operators named in the ModulatedBy entry of operator i
ModulatedBy(def, i) ==
    IF i = 0 THEN {}
    ELSE { def.modulators[i][k] : k \in 1..Len(def.modulators[i]) }

\* the operators whose output is summed into the audible mix
Carriers(def) == { i \in Operators : def.carriers[i + 1] }

\* ------------------------------------------------------------------------
\* fm/algorithm.rs : constructing an Algorithm and using its definition
\* ------------------------------------------------------------------------

\* #[derive(Default)] : Algorithm(0)
InitFmVars ==
    /\ algorithm = 0
    /\ apc = "constructed"
    /\ alg_def = <<>>
    /\ computed = {}
    /\ read_early = FALSE

\* Algorithm(n) : a tuple struct with a public field, built without a check
NewAlgorithm ==
    /\ apc # "panicked"
    /\ \E n \in U8 : algorithm' = n
    /\ apc' = "constructed"
    /\ alg_def' = <<>>
    /\ computed' = {}
    /\ read_early' = FALSE
    /\ UNCHANGED notFmVars

\* a call of get_definition on the Algorithm value
CallGetDefinition ==
    /\ apc = "constructed"
    /\ alg_def' = get_definition(algorithm)
    /\ apc' = IF alg_def' = <<>> THEN "panicked" ELSE "defined"
    /\ UNCHANGED <<algorithm, computed, read_early>>
    /\ UNCHANGED notFmVars

\* one sample: the operators are evaluated in ascending order, each reading
\* the outputs of the operators of its ModulatedBy entry
EvalOperator ==
    /\ apc = "defined"
    /\ computed # Operators
    /\ LET i == CHOOSE a \in Operators \ computed :
                    \A b \in Operators \ computed : a <= b
       IN  /\ computed' = computed \cup {i}
           /\ read_early' =
                (read_early \/ ~(ModulatedBy(alg_def[1], i) \subseteq computed))
    /\ UNCHANGED <<algorithm, apc, alg_def>>
    /\ UNCHANGED notFmVars

\* the carriers are summed and the next sample starts
FinishSample ==
    /\ apc = "defined"
    /\ computed = Operators
    /\ computed' = {}
    /\ UNCHANGED <<algorithm, apc, alg_def, read_early>>
    /\ UNCHANGED notFmVars

\* ------------------------------------------------------------------------
\* ui/audio/audio_editor.rs : AudioSyncHelper
\* ------------------------------------------------------------------------

\* the note calls and ROM messages that may be pending at one time
MaxCalls == 3

MaxRoms == 1

\* number of sound effect channels (scaled)
SFX_CHANNELS == 2

Channels == 0..(SFX_CHANNELS - 1)

\* the arguments the editor passes
NoteIndices == {0, 1}

InstrumentIndices == {0}

\* the iterator of (0..=SFX_CHANNELS).cycle() : one channel too many
TickerNext_Inclusive(ticker) == (ticker + 1) % (SFX_CHANNELS + 1)

\* Cycle<Range<usize>>::next of (0..SFX_CHANNELS).cycle()
TickerNext(ticker) == (ticker + 1) % SFX_CHANNELS

\* enum AudioSyncCommand
PressedKey(note_index, instrument_index, channel) ==
    [kind |-> "PressedKey", note_index |-> note_index,
     instrument_index |-> instrument_index, channel |-> channel]

ReleasedKey(channel) == [kind |-> "ReleasedKey", channel |-> channel]

TriggerNoteCommand(note_index, instrument_index) ==
    [kind |-> "TriggerNote", note_index |-> note_index,
     instrument_index |-> instrument_index]

\* enum SoundEngineChannelType : the messages the editor sends
UpdateOutputProducer == [kind |-> "UpdateOutputProducer"]

SoundRomInstance == [kind |-> "SoundRomInstance"]

PianoKeyPressed(note_index, instrument_index, channel) ==
    [kind |-> "PianoKeyPressed", note_index |-> note_index,
     instrument_index |-> instrument_index, channel |-> channel]

PianoKeyReleased(channel) == [kind |-> "PianoKeyReleased", channel |-> channel]

TriggerNoteMessage(note_index, instrument_index, channel) ==
    [kind |-> "TriggerNote", note_index |-> note_index,
     instrument_index |-> instrument_index, channel |-> channel]

IsNote(msg) ==
    msg.kind \in {"PianoKeyPressed", "PianoKeyReleased", "TriggerNote"}

\* the message of one command: the match of push_commands
MessageOf(command, ticker) ==
    IF command.kind = "PressedKey"
    THEN PianoKeyPressed(command.note_index, command.instrument_index,
                         command.channel)
    ELSE IF command.kind = "ReleasedKey"
    THEN PianoKeyReleased(command.channel)
    ELSE TriggerNoteMessage(command.note_index, command.instrument_index,
                            ticker)

\* a drain that sends the youngest command first
RECURSIVE SendAll_Reversed(_, _)
SendAll_Reversed(queue, ticker) ==
    IF queue = <<>>
    THEN [msgs |-> <<>>, ticker |-> ticker]
    ELSE LET command == queue[Len(queue)]
             next == IF command.kind = "TriggerNote"
                     THEN TickerNext(ticker) ELSE ticker
             rest == SendAll_Reversed(SubSeq(queue, 1, Len(queue) - 1), next)
         IN  [msgs |-> <<MessageOf(command, ticker)>> \o rest.msgs,
              ticker |-> rest.ticker]

\* command_queue.drain(..).for_each(..) : the messages sent, in order, and
\* the ticker afterwards
RECURSIVE SendAll(_, _)
SendAll(queue, ticker) ==
    IF queue = <<>>
    THEN [msgs |-> <<>>, ticker |-> ticker]
    ELSE LET command == Head(queue)
             next == IF command.kind = "TriggerNote"
                     THEN TickerNext(ticker) ELSE ticker
             rest == SendAll(Tail(queue), next)
         IN  [msgs |-> <<MessageOf(command, ticker)>> \o rest.msgs,
              ticker |-> rest.ticker]

RECURSIVE Count(_, _)
Count(seq, kind) ==
    IF seq = <<>> THEN 0
    ELSE (IF Head(seq).kind = kind THEN 1 ELSE 0) + Count(Tail(seq), kind)

RECURSIVE Notes(_)
Notes(seq) ==
    IF seq = <<>> THEN <<>>
    ELSE (IF IsNote(Head(seq)) THEN <<Head(seq)>> ELSE <<>>) \o Notes(Tail(seq))

\* the channels channel_ticker.next() yielded while the messages were sent:
\* one per TriggerNote message
RECURSIVE TriggerChannels(_)
TriggerChannels(msgs) ==
    IF msgs = <<>> THEN <<>>
    ELSE (IF Head(msgs).kind = "TriggerNote" THEN <<Head(msgs).channel>>
          ELSE <<>>) \o TriggerChannels(Tail(msgs))

\* how many yielded channels are remembered: enough for every run of
\* SFX_CHANNELS consecutive ones that ends in the last push_commands
AssignedWindow == (SFX_CHANNELS - 1) + MaxCalls

\* the last n elements
LastN(seq, n) ==
    IF Len(seq) <= n THEN seq ELSE SubSeq(seq, Len(seq) - n + 1, Len(seq))

\* AudioEditor::new
InitEditorVars ==
    /\ assigned = <<>>
    /\ sync_rom = FALSE
    /\ channel_ticker = 0
    /\ command_queue = <<>>
    /\ inbox = <<UpdateOutputProducer>>
    /\ calls = <<>>

NotifyRomChanged ==
    /\ Count(inbox, "SoundRomInstance") < MaxRoms
    /\ sync_rom' = TRUE
    /\ UNCHANGED <<channel_ticker, command_queue, inbox, calls, assigned>>
    /\ UNCHANGED notEditorVars

PlayNote ==
    /\ Len(calls) < MaxCalls
    /\ \E note_index \in NoteIndices, instrument_index \in InstrumentIndices :
         LET channel == channel_ticker
         IN  /\ channel_ticker' = TickerNext(channel_ticker)
             /\ command_queue' =
                  Append(command_queue,
                         PressedKey(note_index, instrument_index, channel))
             /\ calls' =
                  Append(calls,
                         PressedKey(note_index, instrument_index, channel))
             /\ assigned' = LastN(Append(assigned, channel), AssignedWindow)
    /\ UNCHANGED <<sync_rom, inbox>>
    /\ UNCHANGED notEditorVars

StopNote ==
    /\ Len(calls) < MaxCalls
    /\ \E channel \in Channels :
         /\ command_queue' = Append(command_queue, ReleasedKey(channel))
         /\ calls' = Append(calls, ReleasedKey(channel))
    /\ UNCHANGED <<sync_rom, channel_ticker, inbox, assigned>>
    /\ UNCHANGED notEditorVars

TriggerNote ==
    /\ Len(calls) < MaxCalls
    /\ \E note_index \in NoteIndices, instrument_index \in InstrumentIndices :
         /\ command_queue' =
              Append(command_queue,
                     TriggerNoteCommand(note_index, instrument_index))
         /\ calls' =
              Append(calls, TriggerNoteCommand(note_index, instrument_index))
    /\ UNCHANGED <<sync_rom, channel_ticker, inbox, assigned>>
    /\ UNCHANGED notEditorVars

PushCommands ==
    LET rom == IF sync_rom THEN <<SoundRomInstance>> ELSE <<>>
        sent == SendAll(command_queue, channel_ticker)
    IN  /\ sync_rom' = FALSE
        /\ inbox' = inbox \o rom \o sent.msgs
        /\ channel_ticker' = sent.ticker
        /\ command_queue' = <<>>
        /\ assigned' = LastN(assigned \o TriggerChannels(sent.msgs),
                             AssignedWindow)
        /\ UNCHANGED calls
        /\ UNCHANGED notEditorVars

\* the engine drains its whole inbox, applying the commands first in first out
EngineDrain ==
    /\ inbox # <<>>
    /\ inbox' = <<>>
    /\ calls' = SubSeq(calls, Len(Notes(inbox)) + 1, Len(calls))
    /\ UNCHANGED <<sync_rom, channel_ticker, command_queue, assigned>>
    /\ UNCHANGED notEditorVars

\* ------------------------------------------------------------------------
\* console/wasm/wasm_console.rs : handle_requests
\* ------------------------------------------------------------------------

\* largest input value of a player
MaxInput == 1

InputStates == 0..MaxInput

Players == {1}

\* GameStateCell : the cells the session saves into
Cells == {1, 2}

\* the values of the sound engine data, and of the memory of the instance
SoundEngineDatas == {"silent", "playing"}

WasmMemories == {0, 1}

PlayerInputEntry(current, previous) ==
    [current |-> current, previous |-> previous]

\* PlayerInputEntry::push_input_state
PushInputState(entry, input) == PlayerInputEntry(input, entry.current)

\* #[derive(Clone)] WasmConsoleState : the fields are copied; the instance
\* and its functions are handles, the copy points to the same instance
WasmConsoleState(input_state, sound_engine_data, instance) ==
    [input_state |-> input_state, sound_engine_data |-> sound_engine_data,
     instance |-> instance]

StateClone(state) ==
    WasmConsoleState(state.input_state, state.sound_engine_data,
                     state.instance)

\* a save that keeps the input state of the last advance
RefreshInputState_Stale(state, entries) == state

\* line 155 : the input state of the active state is set to the shared
\* entries before the state is saved
RefreshInputState(state, entries) == [state EXCEPT !.input_state = entries]

\* WasmConsole::new
InitConsoleVars(datas) ==
    /\ \E sound_engine_data \in datas :
         active_state =
           WasmConsoleState([p \in Players |-> PlayerInputEntry(0, 0)],
                            sound_engine_data, "instance")
    /\ input_entries = [p \in Players |-> PlayerInputEntry(0, 0)]
    /\ cells = [c \in Cells |-> <<>>]
    /\ wasm_memory = 0
    /\ saved = [c \in Cells |-> <<>>]
    /\ last_request = [kind |-> "none", cell |-> 1]

\* another owner of the shared entries (the window) writes the local input
WriteInputEntries ==
    /\ last_request.kind # "panicked"
    /\ \E p \in Players, input \in InputStates :
         input_entries' =
           [input_entries EXCEPT ![p] = PushInputState(input_entries[p], input)]
    /\ last_request' = [kind |-> "write", cell |-> last_request.cell]
    /\ UNCHANGED <<active_state, cells, wasm_memory, saved>>
    /\ UNCHANGED notConsoleVars

\* GGRSRequest::SaveGameState { cell, frame }
SaveGameState ==
    /\ last_request.kind # "panicked"
    /\ \E c \in Cells :
         /\ active_state' = RefreshInputState(active_state, input_entries)
         /\ cells' = [cells EXCEPT ![c] = <<StateClone(active_state')>>]
         /\ saved' = [saved EXCEPT ![c] =
                        <<[active_state |-> active_state',
                           input_entries |-> input_entries]>>]
         /\ last_request' = [kind |-> "save", cell |-> c]
    /\ UNCHANGED <<input_entries, wasm_memory>>
    /\ UNCHANGED notConsoleVars

\* GGRSRequest::LoadGameState { cell, .. } ; expect panics on an empty cell
LoadGameState ==
    /\ last_request.kind # "panicked"
    /\ \E c \in Cells :
         IF cells[c] = <<>>
         THEN /\ last_request' = [kind |-> "panicked", cell |-> c]
              /\ UNCHANGED <<active_state, input_entries>>
         ELSE /\ active_state' = cells[c][1]
              /\ input_entries' = active_state'.input_state
              /\ last_request' = [kind |-> "load", cell |-> c]
    /\ UNCHANGED <<cells, wasm_memory, saved>>
    /\ UNCHANGED notConsoleVars

\* GGRSRequest::AdvanceFrame { inputs } ; call_update runs the update
\* function of the instance, which writes the memory of the instance
AdvanceFrame ==
    /\ last_request.kind # "panicked"
    /\ \E inputs \in [Players -> InputStates], memory \in WasmMemories :
         /\ active_state' =
              [active_state EXCEPT !.input_state =
                 [p \in Players |->
                    PushInputState(active_state.input_state[p], inputs[p])]]
         /\ input_entries' = active_state'.input_state
         /\ wasm_memory' = memory
    /\ last_request' = [kind |-> "advance", cell |-> last_request.cell]
    /\ UNCHANGED <<cells, saved>>
    /\ UNCHANGED notConsoleVars

\* ------------------------------------------------------------------------
\* Specifications
\* ------------------------------------------------------------------------

\* the envelope of the voice of rollback.rs
MainEnvelope == [attack |-> EnvMax, decay |-> 1, sustain |-> 1, release |-> 1]

\* the voices of the voice experiments: one per envelope definition, and
\* the silent voice
Voices ==
    { VoiceNew(WavetableDefinition(envdef), OutputSampleRate) :
        envdef \in EnvelopeDefs }
    \cup { VoiceNoSound(NoSoundSampleRate) }

InitVoices ==
    /\ InitVoiceVars(Voices)
    /\ InitPipeVars({MainEnvelope}, {1}, FALSE)
    /\ InitFmVars
    /\ InitEditorVars
    /\ InitConsoleVars({"silent"})

InitPipe ==
    /\ InitVoiceVars({VoiceNew(WavetableDefinition(MainEnvelope),
                               OutputSampleRate)})
    /\ InitPipeVars({MainEnvelope}, {1}, FALSE)
    /\ InitFmVars
    /\ InitEditorVars
    /\ InitConsoleVars({"silent"})

Producer ==
    \/ ProducerCheck
    \/ ProducerSleep
    \/ ProducerPush
    \/ ProducerTick
    \/ ProducerCommit
    \/ ProducerRollback

Callback ==
    \/ CallbackEnter
    \/ CallbackPop
    \/ CallbackCheck

NextVoices ==
    \/ SetFrequency
    \/ SetActive
    \/ Trigger
    \/ Tick
    \/ CloneVoice
    \/ DropClone
    \/ Snapshot
    \/ Restore
    \/ FinishReplay

SpecVoices == InitVoices /\ [][NextVoices]_vars

NextPipe ==
    \/ ProducerCheck
    \/ ProducerSleep
    \/ ProducerPush
    \/ ProducerTick
    \/ ProducerCommit
    \/ ProducerRollback
    \/ CallbackEnter
    \/ CallbackPop
    \/ CallbackCheck

SpecPipe == InitPipe /\ [][NextPipe]_vars

\* both threads keep being scheduled
FairPipe ==
    /\ SpecPipe
    /\ WF_vars(Producer)
    /\ WF_vars(Callback)

\* a run of main whose frames and samples are logged, MaxFrames frames long
InitPlayback ==
    /\ InitVoiceVars({VoiceNew(WavetableDefinition(MainEnvelope),
                               OutputSampleRate)})
    /\ InitPipeVars({MainEnvelope}, {1}, TRUE)
    /\ InitFmVars
    /\ InitEditorVars
    /\ InitConsoleVars({"silent"})

SpecPlayback == InitPlayback /\ [][NextPipe]_vars

NextAlgorithm ==
    \/ NewAlgorithm
    \/ CallGetDefinition
    \/ EvalOperator
    \/ FinishSample

SpecAlgorithm == InitPipe /\ [][NextAlgorithm]_vars

NextEditor ==
    \/ NotifyRomChanged
    \/ PlayNote
    \/ StopNote
    \/ TriggerNote
    \/ PushCommands
    \/ EngineDrain

SpecEditor == InitPipe /\ [][NextEditor]_vars

InitConsole ==
    /\ InitVoiceVars({VoiceNew(WavetableDefinition(MainEnvelope),
                               OutputSampleRate)})
    /\ InitPipeVars({MainEnvelope}, {1}, FALSE)
    /\ InitFmVars
    /\ InitEditorVars
    /\ InitConsoleVars(SoundEngineDatas)

NextConsole ==
    \/ WriteInputEntries
    \/ SaveGameState
    \/ LoadGameState
    \/ AdvanceFrame

SpecConsole == InitConsole /\ [][NextConsole]_vars

\* ------------------------------------------------------------------------
\* Properties of the voice
\* ------------------------------------------------------------------------

\* a step of the live voice that is a tick
IsTick == ticks' # ticks

C3_TriggerOneTick ==
    [][ IsTick =>
          /\ env_in' = voice.active
          /\ voice.active = "Trigger" => voice'.active = "Off"
          /\ voice.active = "Off" => voice'.active = "Off" ]_vars

C3_Witness ==
    /\ env_in = "Trigger"
    /\ ~fresh
    /\ voice.active = "Off"
    /\ voice.envelope.stage = "Decay"
    /\ voice.envelope.def.attack = EnvMax

\* C4 as stated: the tick that resets Trigger to Off comes only after the
\* envelope has played to its end (ticks since the trigger, envelope off).
C4_ResetAfterCompletion ==
    [][ (IsTick /\ voice.active = "Trigger" /\ voice'.active = "Off") =>
          (~fresh /\ voice.envelope.stage = "Off") ]_vars

\* C4 as amended: the voice is in Trigger only until the first tick after
\* trigger(); that tick resets it to Off while the envelope it has just
\* started is still sounding.
C4_ResetOnFirstTick ==
    /\ [](voice.active = "Trigger" => fresh)
    /\ [][ (IsTick /\ voice.active = "Trigger") =>
             (voice'.active = "Off" /\ voice'.envelope.stage # "Off") ]_vars

C4_Witness ==
    /\ env_in = "Trigger"
    /\ ~fresh
    /\ voice.active = "Off"
    /\ voice.envelope.stage = "Attack"
    /\ voice.envelope.level > 0

\* ------------------------------------------------------------------------
\* Properties of the frame pipeline
\* ------------------------------------------------------------------------

\* a step of the audio callback
IsCallbackStep == cpc' # cpc

\* a step in which the producer thread ticks the voice
IsProducerTick == Len(chunk') = Len(chunk) + 1

\* the callback replaces its inner ring by the next queued one
IsSwap == consumer' # consumer

\* C5 (outer queue bounded): the outer queue never holds more than
\* OuterCapacity frame rings, the producer thread is about to push only
\* while the queue has room, and no push fails.
C5_OuterQueueBounded ==
    /\ Len(outer) <= OuterCapacity
    /\ ppc = "push" => Len(outer) < OuterCapacity
    /\ ppc # "panicked"

C5_Witness ==
    /\ Len(outer) = OuterCapacity
    /\ ppc = "sleep"
    /\ frame_count > 0

\* C6 as stated: the inner ring the callback has taken from the outer
\* queue and reads holds all OutputBufferLen committed samples of its
\* frame.
C6_TakenRingRendered ==
    Len(bufs[consumer].slots) = OutputBufferLen

\* C7 as stated: when the callback replaces its inner ring, every sample
\* of the replaced ring has been committed and read.
C7_NoSampleDropped ==
    [][ IsSwap =>
          /\ Len(bufs[consumer].slots) = OutputBufferLen
          /\ bufs[consumer].head = OutputBufferLen ]_vars

\* C8 as stated: an output slot for which the inner ring had no sample
\* holds 0.0 in both channels once the callback has processed it.
C8_SilenceOnUnderrun ==
    (cpc = "check" /\ popped = "starved") => data[slot] = <<0, 0>>

\* C9 as stated: after every starved slot the callback eventually emits a
\* sample of a frame the producer thread rendered.
C9_UnderrunHeals ==
    [](popped = "starved" => <>(popped = "frame"))

\* C10 (snapshots between frames): prev and osci change, other than by a
\* tick of the render loop, only at the producer thread's rollback step,
\* where the frame's chunk is committed in full and no tick is pending;
\* the next tick comes only after the next push; no step of the audio
\* callback changes osci or prev.
C10_SnapshotBetweenFrames ==
    [][ /\ (prev' # prev \/ (osci' # osci /\ ~IsProducerTick)) =>
              /\ ppc = "rollback"
              /\ chunk = <<>>
              /\ Len(bufs[new_producer].slots) = OutputBufferLen
              /\ ppc' = "loop"
        /\ IsCallbackStep => (osci' = osci /\ prev' = prev) ]_vars

C10_Witness ==
    /\ ppc = "loop"
    /\ frame_count = 0
    /\ osci = prev
    /\ cpc = "pop"
    /\ popped = "frame"

\* C11 : in every algorithm 0..11 every operator named in the ModulatedBy
\* entry of operator i is an operator strictly below i, so no operator
\* modulates itself, no two modulate each other, and evaluating the
\* operators in ascending order never reads an output not yet computed.
C11_ModulatorsPrecede ==
    apc = "defined" =>
        /\ algorithm \in AlgorithmMin..AlgorithmMax
        /\ \A i \in Operators :
             \A m \in ModulatedBy(alg_def[1], i) : m \in Operators /\ m < i
        /\ ~read_early

C11_Witness ==
    /\ apc = "defined"
    /\ algorithm = 4
    /\ alg_def[1].modulators[3] = Triple(0, 1, 2)
    /\ computed = Operators

\* C12 : Algorithm(0) is the serial chain: operator 3 is the only carrier
\* and each operator k of 0..2 is the single modulator of operator k + 1;
\* Algorithm(11) has four carriers and every ModulatedBy entry is None.
C12_SerialAndParallel ==
    apc = "defined" =>
        /\ algorithm = 0 =>
             /\ Carriers(alg_def[1]) = {3}
             /\ \A k \in 0..2 : alg_def[1].modulators[k + 1] = Single(k)
             /\ \A k \in 0..2 : ModulatedBy(alg_def[1], k + 1) = {k}
        /\ algorithm = 11 =>
             /\ Carriers(alg_def[1]) = Operators
             /\ \A k \in 1..(OPERATOR_COUNT - 1) :
                  alg_def[1].modulators[k] = None
             /\ \A i \in Operators : ModulatedBy(alg_def[1], i) = {}

C12_Witness ==
    /\ apc = "defined"
    /\ algorithm = 0
    /\ 3 \in computed

\* C13 as stated : an Algorithm whose index is outside min()..max() is
\* rejected when it is constructed, so no such value ever exists.
C13_RejectedAtConstruction ==
    apc = "constructed" => algorithm \in AlgorithmMin..AlgorithmMax

\* C13 : get_definition returns a definition exactly for the indices of
\* min()..max(); Algorithm(n) is constructed for every 8-bit n, and for n
\* outside that range the call of get_definition panics and no definition
\* is returned.
C13_RejectedAtGetDefinition ==
    /\ \A n \in U8 :
         (get_definition(n) # <<>>) <=> (AlgorithmMin <= n /\ n <= AlgorithmMax)
    /\ apc = "defined" =>
         /\ AlgorithmMin <= algorithm /\ algorithm <= AlgorithmMax
         /\ alg_def = get_definition(algorithm)
    /\ apc = "panicked" =>
         ~(AlgorithmMin <= algorithm /\ algorithm <= AlgorithmMax)
    /\ ~(AlgorithmMin <= algorithm /\ algorithm <= AlgorithmMax) =>
         /\ alg_def = <<>>
         /\ apc \in {"constructed", "panicked"}

C13_Witness ==
    /\ apc = "panicked"
    /\ algorithm = 255
    /\ alg_def = <<>>

IsDrain == Len(inbox') < Len(inbox)

IsPush == inbox' # inbox /\ ~IsDrain

\* the call a message answers (the channel of a TriggerNote message is
\* chosen when it is sent, not by the call)
CallOf(msg) ==
    IF msg.kind = "PianoKeyPressed"
    THEN PressedKey(msg.note_index, msg.instrument_index, msg.channel)
    ELSE IF msg.kind = "PianoKeyReleased"
    THEN ReleasedKey(msg.channel)
    ELSE TriggerNoteCommand(msg.note_index, msg.instrument_index)

CallsOf(seq) == [k \in 1..Len(seq) |-> CallOf(seq[k])]

C15_NoteFifo ==
    /\ [](CallsOf(Notes(inbox)) \o command_queue = calls)
    /\ [][IsPush => command_queue' = <<>>
                    /\ Len(Notes(inbox')) =
                         Len(Notes(inbox)) + Len(command_queue)]_vars

C15_Witness ==
    /\ Len(Notes(inbox)) = MaxCalls
    /\ command_queue = <<>>
    /\ inbox[Len(inbox) - 2].kind = "TriggerNote"
    /\ inbox[Len(inbox) - 1].kind = "PianoKeyReleased"
    /\ inbox[Len(inbox)].kind = "PianoKeyPressed"
    /\ inbox[Len(inbox)].note_index # inbox[Len(inbox) - 2].note_index

\* the voices that exist in a state
HeldVoices ==
    {voice} \cup { twin[k] : k \in 1..Len(twin) }
            \cup { snap[k] : k \in 1..Len(snap) }

\* C16 : after any sequence of set_frequency and tick the phase of a voice
\* is at least 0 and below the table length, so the two table reads of the
\* next tick, at floor(phase) and at (index + 1) mod length, are inside the
\* table; also for the one entry table of the silent voice and for
\* frequency 0.
C16_PhaseInTable ==
    \A v \in HeldVoices :
       /\ 0 <= v.oscillator.phase
       /\ v.oscillator.phase < DefLen(v.definition) * PhaseRes
       /\ TableIndex(v.oscillator.phase) + 1 \in DOMAIN v.definition.data
       /\ TableNext(v.definition, TableIndex(v.oscillator.phase)) + 1
             \in DOMAIN v.definition.data

C16_Witness ==
    /\ voice.definition = NoSoundDefinition
    /\ voice.oscillator.increment > 0
    /\ voice.oscillator.phase = 0
    /\ twin # <<>>
    /\ ~fresh
    /\ ticks = 0

\* C17 : a tick that starts at an integer phase outputs the table entry at
\* that index over the bit depth maximum, times the envelope amplitude; with
\* the table [0, 127, 255, 127], an increment of one entry per tick and
\* amplitude 1 the outputs are table[k mod 4] / 255 at tick k: each such
\* tick outputs its entry and moves to the next entry modulo 4.
C17_OutputAtIntegerPhase ==
    [][ (IsTick /\ voice.oscillator.phase % PhaseRes = 0) =>
          LET index == voice.oscillator.phase \div PhaseRes
          IN  /\ out' = voice.definition.data[index + 1] * PhaseRes
                          * voice'.envelope.level
              /\ (voice.definition.data = <<0, 127, 255, 127>>
                  /\ voice.oscillator.increment = PhaseRes
                  /\ voice'.envelope.level = EnvMax) =>
                   /\ out' * WavetableBitDepthMax =
                        <<0, 127, 255, 127>>[(index % 4) + 1]
                          * (WavetableBitDepthMax * PhaseRes * EnvMax)
                   /\ voice'.oscillator.phase =
                        ((index + 1) % 4) * PhaseRes ]_vars

C17_Witness ==
    /\ rpc = "first"
    /\ snap[1].oscillator.phase = 0
    /\ voice.oscillator.increment = PhaseRes
    /\ voice.envelope.level = EnvMax
    /\ first = <<0, 127 * PhaseRes * EnvMax, 255 * PhaseRes * EnvMax>>
    /\ out = WavetableBitDepthMax * PhaseRes * EnvMax

\* C19 : tick, set_frequency, set_active and trigger on a voice change only
\* the oscillator, envelope and active fields of that voice: the shared
\* definition and a clone taken earlier stay as they were.
C19_VoicesIsolated ==
    [][ /\ voice'.definition = voice.definition
        /\ (rpc' = rpc /\ snap # <<>>) => snap' = snap
        /\ (rpc' = rpc /\ voice' # voice) =>
              \/ voice'.oscillator # voice.oscillator
              \/ voice'.envelope # voice.envelope
              \/ voice'.active # voice.active ]_vars

C19_Witness ==
    /\ rpc = "second"
    /\ Len(second) = Len(first)
    /\ snap # <<>>
    /\ snap[1].active = "Off"
    /\ voice.active = "Trigger"
    /\ snap[1].oscillator.increment # voice.oscillator.increment
    /\ snap[1].oscillator.phase # voice.oscillator.phase
    /\ snap[1].definition = voice.definition

\* what is left of an invocation of the callback, in steps
CallbackRank ==
    IF cpc = "idle" THEN 0
    ELSE 2 * (DataLen - slot) + (IF cpc = "pop" THEN 2 ELSE 1)

\* C20 : the audio callback never waits for the producer: in every state of
\* an invocation its next step can be taken, whatever the inner ring and the
\* outer queue hold and wherever the producer thread stands, and every step
\* brings the return closer by one, so each invocation handles all its
\* slots and returns.
C20_CallbackNeverWaits ==
    /\ slot \in 1..DataLen
    /\ cpc # "idle" =>
         /\ ENABLED Callback
         /\ ~ENABLED (Callback /\ CallbackRank' # CallbackRank - 1)

C20_Witness ==
    /\ cpc = "check"
    /\ slot = DataLen
    /\ popped = "starved"
    /\ outer = <<>>
    /\ ppc = "loop"
    /\ frame_count = 0
    /\ bufs[consumer].head = Len(bufs[consumer].slots)

FullScale == WavetableBitDepthMax * PhaseRes * EnvMax

\* the tables as long as the voice's table whose entries are 0 or
\* WavetableBitDepth::MAX
ExtremeTables(v) == [1..DefLen(v.definition) -> {0, WavetableBitDepthMax}]

\* C21 (normalised output): every sample of a tick lies in [0, 1]; at the
\* phase the next tick reads, the interpolation of every table with
\* entries within 0..WavetableBitDepth::MAX lies in [0, 1], because each
\* of the two weights is non-negative and they sum to 1 (the table that is
\* MAX everywhere interpolates to exactly 1); the envelope amplitude is
\* within [0, 1].
C21_OutputNormalised ==
    /\ out \in 0..FullScale
    /\ twin_out \in 0..FullScale
    /\ voice.envelope.level \in 0..EnvMax
    /\ \A i \in 1..DefLen(voice.definition) :
          voice.definition.data[i] \in 0..WavetableBitDepthMax
    /\ LET phase == OscTick(voice.oscillator).index
       IN  \A table \in ExtremeTables(voice) :
              LET definition == [voice.definition EXCEPT !.data = table]
                  output     == Interpolate(definition, phase)
              IN  /\ output \in 0..(WavetableBitDepthMax * PhaseRes)
                  /\ (\A i \in 1..Len(table) :
                         table[i] = WavetableBitDepthMax)
                       => output = WavetableBitDepthMax * PhaseRes

\* a sample read between two table entries, at an amplitude above zero
C21_Witness ==
    /\ ~fresh
    /\ out > 0
    /\ out < FullScale
    /\ voice.oscillator.increment % PhaseRes # 0
    /\ voice.oscillator.phase % PhaseRes = 0
    /\ voice.envelope.level = EnvMax

\* C22 (activity across ticks): a tick changes the activity only from
\* Trigger to Off, so a voice that is On stays On and a voice that is Off
\* stays Off; set_active(true) gives On, set_active(false) gives Off and
\* trigger() gives Trigger, from every activity; between a snapshot and
\* the end of its replay nothing else changes the activity.
C22_ActivityAcrossTicks ==
    /\ [][ IsTick =>
             voice'.active = (IF voice.active = "Trigger" THEN "Off"
                              ELSE voice.active) ]_vars
    /\ [][ (voice'.active # voice.active /\ ~IsTick /\ rpc' = rpc) =>
             (SetActive \/ Trigger) ]_vars
    /\ [][ SetActive => voice'.active \in {"On", "Off"} ]_vars
    /\ [][ Trigger => voice'.active = "Trigger" ]_vars
    /\ [](/\ VoiceSetActive(voice, TRUE).active = "On"
          /\ VoiceSetActive(voice, FALSE).active = "Off"
          /\ VoiceTrigger(voice).active = "Trigger"
          /\ (AtRest => ENABLED SetActive /\ ENABLED Trigger))

\* a held note that has been ticked into its sustain and is still On
C22_Witness ==
    /\ env_in = "On"
    /\ ~fresh
    /\ voice.active = "On"
    /\ voice.envelope.stage = "Sustain"

\* the place of a played sample in the order of production: frame by
\* frame, tick by tick; the preloaded silence is frame 0
SampleOrder(e) == (e[1] * OutputBufferLen) + e[2]

\* C23 (playback order): the samples the callback has taken from inner
\* rings are, in the order taken, a subsequence of the preloaded silence
\* followed by the samples the producer thread rendered, frame by frame
\* and tick by tick: every sample taken was rendered before, at the place
\* its ring and its index name, and each is later in the order of
\* production than the one taken before it, so none is emitted twice and
\* no frame is played before a frame pushed earlier.
C23_PlaybackOrder ==
    /\ \A k \in 1..Len(played_log) :
          LET e == played_log[k]
              n == ((e[1] - 1) * OutputBufferLen) + e[2]
          IN  /\ e[2] \in 1..OutputBufferLen
              /\ IF e[1] = 0
                 THEN e[3] = 0
                 ELSE /\ n <= Len(rendered_log)
                      /\ e[3] = rendered_log[n]
    /\ \A k \in 1..(Len(played_log) - 1) :
          SampleOrder(played_log[k]) < SampleOrder(played_log[k + 1])

\* the last rendered sample has been played, a sample above zero has been
\* played, and the samples of some frame in between were never played
C23_Witness ==
    /\ Len(rendered_log) = MaxFrames * OutputBufferLen
    /\ played_log # <<>>
    /\ played_log[Len(played_log)] =
          <<MaxFrames, OutputBufferLen, rendered_log[Len(rendered_log)]>>
    /\ \E k \in 1..Len(played_log) : played_log[k][3] > 0
    /\ \E f \in 1..(MaxFrames - 1) :
          \A k \in 1..Len(played_log) : played_log[k][1] # f

\* C24 (swap cadence): frames_read stays within 0..OutputBufferLen and is
\* below OutputBufferLen between sample slots, where it equals the number
\* of slots processed modulo OutputBufferLen; the frame boundary of the
\* callback takes the next queued ring exactly at every OutputBufferLen-th
\* slot, starved slots included, and at no other slot; frames_read is 0
\* after that slot whether or not a ring was queued; the preloaded ring is
\* replaced only after all its samples were taken.
C24_SwapCadence ==
    /\ [](frames_read \in 0..OutputBufferLen)
    /\ [](cpc # "check" =>
            (frames_read < OutputBufferLen /\ frames_read = slots_mod))
    /\ [](cpc = "check" =>
            (frames_read >= 1 /\ frames_read % OutputBufferLen = slots_mod))
    /\ [][ (cpc = "check" /\ cpc' # "check") =>
             IF slots_mod = 0
             THEN /\ frames_read' = 0
                  /\ IF outer # <<>>
                     THEN consumer' = Head(outer) /\ outer' = Tail(outer)
                     ELSE consumer' = consumer /\ outer' = outer
             ELSE /\ frames_read' = frames_read
                  /\ consumer' = consumer
                  /\ outer' = outer ]_vars
    /\ [][ (IsSwap /\ ~bufs[consumer].frame) =>
             bufs[consumer].head = OutputBufferLen ]_vars

\* the callback is between two slots at a frame boundary that found no
\* queued ring, a full frame of starved slots after an earlier one
C24_Witness ==
    /\ cpc = "pop"
    /\ frames_read = 0
    /\ popped = "starved"
    /\ ~bufs[consumer].frame
    /\ outer = <<>>

\* C25 (snapshot freshness): the rollback block restores exactly after
\* every (ROLLBACK_FRAMES + 1)-th committed frame; the restored voice is
\* the voice as it was at the end of the frame before the one just
\* committed; between frames prev is the voice at the end of the last
\* frame that was not followed by a restore; the frame rendered after a
\* restore repeats, sample for sample, the frame rendered before it, and
\* leaves the voice as that frame left it.
C25_SnapshotFreshness ==
    /\ [][ (ppc = "rollback" /\ ppc' = "loop") =>
             /\ restored' <=> (frames_mod = 0)
             /\ restored' =>
                  (osci' = frame_end_before /\ prev' = frame_end_before)
             /\ ~restored' => (osci' = osci /\ prev' = frame_end) ]_vars
    /\ [](ppc \in {"loop", "push", "sleep", "render"} =>
            prev = (IF restored THEN frame_end_before ELSE frame_end))
    /\ [](ppc = "render" /\ restored =>
            /\ chunk = SubSeq(last_frame, 1, Len(chunk))
            /\ Len(chunk) = OutputBufferLen => osci = frame_end)

\* the frame after a restore is rendered in full: the voice has moved on
\* from the restored state and is where the frame before had left it
C25_Witness ==
    /\ ppc = "render"
    /\ restored
    /\ Len(chunk) = OutputBufferLen
    /\ chunk = last_frame
    /\ osci = frame_end
    /\ osci # frame_end_before
    /\ prev = frame_end_before

\* C26 (round-robin channels): every channel channel_ticker.next() yields,
\* to play_note when it is called or to a TriggerNote when push_commands
\* sends it, lies in 0..SFX_CHANNELS - 1, and any SFX_CHANNELS channels
\* yielded one after the other are pairwise distinct, however play_note,
\* trigger_note and push_commands interleave.
C26_RoundRobin ==
    /\ channel_ticker \in Channels
    /\ \A k \in 1..Len(assigned) : assigned[k] \in Channels
    /\ \A k \in 1..Len(assigned) :
          \A j \in 1..Len(assigned) :
             (k < j /\ j - k < SFX_CHANNELS) => assigned[k] # assigned[j]
    /\ \A k \in 1..Len(inbox) :
          inbox[k].kind \in {"PianoKeyPressed", "TriggerNote"} =>
             inbox[k].channel \in Channels

\* the ticker has gone round more than once, and both play_note and a
\* TriggerNote of push_commands have drawn from it
C26_Witness ==
    /\ Len(assigned) > SFX_CHANNELS
    /\ \E k \in 1..Len(inbox) : inbox[k].kind = "TriggerNote"
    /\ \E k \in 1..Len(inbox) :
          /\ inbox[k].kind = "PianoKeyPressed"
          /\ \E j \in 1..Len(inbox) :
                /\ j < k
                /\ inbox[j].kind = "TriggerNote"
                /\ inbox[j].channel = inbox[k].channel

\* the operators some other operator is modulated by
Modulators(def) ==
    { m \in Operators :
        \E i \in Operators : i # m /\ m \in ModulatedBy(def, i) }

\* the operators whose output reaches the mix through at most n modulations
RECURSIVE Audible(_, _)
Audible(def, n) ==
    IF n = 0 THEN Carriers(def)
    ELSE LET heard == Audible(def, n - 1)
         IN  heard \cup { m \in Operators :
                            \E i \in heard : m \in ModulatedBy(def, i) }

\* C27 (carriers and modulators): in each of the 12 algorithm definitions
\* an operator is a carrier if and only if no other operator names it in
\* its ModulatedBy entry, so the operators split into carriers and
\* modulators; the last operator is a carrier, there is at least one
\* carrier, and the output of every operator reaches the mix directly or
\* through a chain of modulations.
C27_CarriersAndModulators ==
    /\ AlgorithmMax - AlgorithmMin + 1 = 12
    /\ \A n \in AlgorithmMin..AlgorithmMax :
          /\ get_definition(n) # <<>>
          /\ Len(get_definition(n)[1].carriers) = OPERATOR_COUNT
          /\ Len(get_definition(n)[1].modulators) = OPERATOR_COUNT - 1
    /\ apc = "defined" =>
          LET def == alg_def[1]
          IN  /\ def = get_definition(algorithm)[1]
              /\ \A i \in Operators :
                    i \in Carriers(def) <=> i \notin Modulators(def)
              /\ Carriers(def) \cup Modulators(def) = Operators
              /\ Carriers(def) \cap Modulators(def) = {}
              /\ (OPERATOR_COUNT - 1) \in Carriers(def)
              /\ Carriers(def) # {}
              /\ Audible(def, OPERATOR_COUNT - 1) = Operators

\* an algorithm with two carriers and a chain of two modulations has been
\* looked up and its sample evaluated to the last operator
C27_Witness ==
    /\ apc = "defined"
    /\ Carriers(alg_def[1]) = {2, 3}
    /\ Modulators(alg_def[1]) = {0, 1}
    /\ Audible(alg_def[1], 1) # Operators
    /\ computed = Operators

====
